---- MODULE Spec2Model ----
(***************************************************************************)
(* A model of funpiler's parser: the combinator core (Constant, Choice,    *)
(* ZeroOrMore, Bind, And, Maybe, map, parse_to_completion) and the lexical *)
(* layer built on it (whitespace, comments, ignored, TokenBase/token,      *)
(* number, id), as written in src/src/parser/mod.rs, and the argument-list *)
(* rule of src/src/parser/ast.rs.                                          *)
(*                                                                         *)
(* A &str is a sequence of code points.  Rust slices a &str by BYTE        *)
(* offset, so every code point carries its UTF-8 length, and a slice at an *)
(* offset that is not a code point boundary panics.                        *)
(***************************************************************************)
EXTENDS Integers, Sequences, FiniteSets, TLC

VARIABLES input, applied, result, pc

vars == <<input, applied, result, pc>>

----------------------------------------------------------------------------
(* Code points.  A code point is written as a one-character string; the   *)
(* non-ASCII ones have names: nbsp is U+00A0, emsp is U+2003 (both         *)
(* White_Space), e_acute is U+00E9 (alphabetic), sup2 is U+00B2 (numeric,  *)
(* not alphabetic).                                                        *)

WhitespaceChars == {" ", "\t", "\n", "nbsp", "emsp"}

AsciiDigitChars == {"0", "1", "2", "3", "4", "5", "6", "7", "8", "9"}

AlphabeticChars ==
    {"a", "b", "c", "e", "f", "g", "h", "i", "l", "n", "o", "r", "s", "t",
     "u", "v", "w", "x", "e_acute"}

NumericChars == AsciiDigitChars \cup {"sup2"}

is_whitespace(ch) == ch \in WhitespaceChars

is_ascii_digit(ch) == ch \in AsciiDigitChars

is_alphabetic(ch) == ch \in AlphabeticChars

is_alphanumeric(ch) == ch \in AlphabeticChars \cup NumericChars

len_utf8(ch) ==
    CASE ch \in {"nbsp", "e_acute", "sup2"} -> 2
      [] ch = "emsp" -> 3
      [] OTHER -> 1

DigitValue(ch) ==
    CASE ch = "0" -> 0 [] ch = "1" -> 1 [] ch = "2" -> 2 [] ch = "3" -> 3
      [] ch = "4" -> 4 [] ch = "5" -> 5 [] ch = "6" -> 6 [] ch = "7" -> 7
      [] ch = "8" -> 8 [] ch = "9" -> 9

----------------------------------------------------------------------------
(* &str: length in bytes, byte offsets, slicing.                           *)

RECURSIVE ByteLen(_)
ByteLen(s) == IF s = <<>> THEN 0 ELSE len_utf8(Head(s)) + ByteLen(Tail(s))

\* The byte offset char_indices() reports for the k-th code point (k >= 1).
ByteIdx(s, k) == ByteLen(SubSeq(s, 1, k - 1))

is_char_boundary(s, b) == \E k \in 0..Len(s) : ByteLen(SubSeq(s, 1, k)) = b

\* &s[b..] for a b that is a code point boundary.
SliceFrom(s, b) ==
    LET k == CHOOSE j \in 0..Len(s) : ByteLen(SubSeq(s, 1, j)) = b
    IN  SubSeq(s, k + 1, Len(s))

\* &s[0..b] for a b that is a code point boundary.
SliceTo(s, b) ==
    LET k == CHOOSE j \in 0..Len(s) : ByteLen(SubSeq(s, 1, j)) = b
    IN  SubSeq(s, 1, k)

starts_with(s, prefix) ==
    Len(s) >= Len(prefix) /\ SubSeq(s, 1, Len(prefix)) = prefix

\* s.get(a..b) == Some(t): both offsets are boundaries and the bytes between are t.
GetIs(s, a, b, t) ==
    /\ a <= b
    /\ is_char_boundary(s, a)
    /\ is_char_boundary(s, b)
    /\ SliceFrom(SliceTo(s, b), a) = t

MinOf(S) == CHOOSE x \in S : \A y \in S : x <= y

----------------------------------------------------------------------------
(* The values of the model.  Option<Result<'a, T>> is None or Some(...);   *)
(* a call can also fail to return, by a panic (a slice off a boundary, an  *)
(* unwrap of Err) or by looping forever.  A parser is a term, and          *)
(* Parse(p, src) below is p.parse(src).                                    *)

None == [kind |-> "None"]

Panic == [kind |-> "Panic"]

Loop == [kind |-> "Loop"]

\* Result<Self::Output, ()>.
Err == [kind |-> "Err"]

Pending == [kind |-> "Pending"]

NoParser == [op |-> "none"]

\* Option<T> without a value.
Absent == [present |-> FALSE]

\* std's Err of str::parse.
ParseIntError == [ok |-> FALSE]

\* |tk| ignored.and(Constant::new(tk))
IgnoredAndConstant == [closure |-> "ignored_and_constant"]

Fn(fname) == [op |-> "fn", name |-> fname]

ZeroOrMore(inner) == [op |-> "ZeroOrMore", p |-> inner]

Maybe(inner) == [op |-> "Maybe", p |-> inner]

\* A bind closure that ignores its argument: |_| inner.
Then(inner) == [closure |-> "then", p |-> inner]

Choice(left, right) == [op |-> "Choice", p1 |-> left, p2 |-> right]

And(left, right) == [op |-> "And", p1 |-> left, p2 |-> right]

Bind(first, fun) == [op |-> "Bind", parser |-> first, function |-> fun]

\* move |val| Constant::new(function(val))
MapClosure(fun) == [closure |-> "map", function |-> fun]

\* self.bind(move |val| Constant::new(function(val)))
Map(first, fun) == Bind(first, MapClosure(fun))

TokenBase(tok, flag) == [op |-> "TokenBase", token |-> tok, whitespace_end |-> flag]

Some(src, val) == [kind |-> "Some", source |-> src, value |-> val]

Ok(val) == [kind |-> "Ok", value |-> val]

Constant(val) == [op |-> "Constant", value |-> val]

\* Option<T> with a value.
Present(val) == [present |-> TRUE, value |-> val]

ParsedInt(val) == [ok |-> TRUE, value |-> val]

Unit == <<>>

\* |arg| ZeroOrMore::new(comma_t.and(expression)).bind(move |mut args| ...)
ArgumentsRest == [closure |-> "arguments_rest"]

\* move |mut args| { args.insert(0, arg.clone()); Constant::new(args) }
InsertFirst(arg) == [closure |-> "insert_first", value |-> arg]

\* Some(Result { source: &source[b..], value }), which panics off a boundary.
SomeSliced(src, b, val) ==
    IF is_char_boundary(src, b) THEN Some(SliceFrom(src, b), val) ELSE Panic

----------------------------------------------------------------------------
(* The lexical primitives, each a fn(&str) -> Option<Result<...>>.         *)

\* Mutant: the Some(0) => None arm is left out, so an empty run of whitespace
\* is a match.
WhitespaceMatchesEmpty(src) ==
    IF src = <<>> THEN None
    ELSE LET not_ws == {k \in 1..Len(src) : ~is_whitespace(src[k])}
         IN  IF not_ws = {} THEN Some(<<>>, Unit)
             ELSE SomeSliced(src, ByteIdx(src, MinOf(not_ws)), Unit)

\* Mutant: the slice kept is the whitespace, &source[..idx], not what follows.
WhitespaceKeepsPrefix(src) ==
    IF src = <<>> THEN None
    ELSE LET not_ws == {k \in 1..Len(src) : ~is_whitespace(src[k])}
         IN  IF not_ws = {} THEN Some(<<>>, Unit)
             ELSE LET idx == ByteIdx(src, MinOf(not_ws))
                  IN  IF idx = 0 THEN None ELSE Some(SliceTo(src, idx), Unit)

whitespace(src) ==
    IF src = <<>> THEN None
    ELSE LET not_ws == {k \in 1..Len(src) : ~is_whitespace(src[k])}
         IN  IF not_ws = {} THEN Some(<<>>, Unit)
             ELSE LET idx == ByteIdx(src, MinOf(not_ws))
                  IN  IF idx = 0 THEN None ELSE SomeSliced(src, idx, Unit)

single_line_comment(src) ==
    IF ~starts_with(src, <<"/", "/">>) THEN None
    ELSE LET newlines == {k \in 3..Len(src) : src[k] = "\n"}
         IN  IF newlines = {} THEN Some(<<>>, Unit)
             ELSE SomeSliced(src, ByteIdx(src, MinOf(newlines)) + 1, Unit)

\* Mutant: a block comment that is never closed runs to the end of the input,
\* as a line comment does.
MultiLineCommentToEnd(src) ==
    IF ~starts_with(src, <<"/", "*">>) THEN None
    ELSE LET ends == {k \in 3..Len(src) :
                        /\ src[k] = "*"
                        /\ GetIs(src, ByteIdx(src, k) + 1, ByteIdx(src, k) + 2, <<"/">>)}
         IN  IF ends = {} THEN Some(<<>>, Unit)
             ELSE SomeSliced(src, ByteIdx(src, MinOf(ends)) + 2, Unit)

multi_line_comment(src) ==
    IF ~starts_with(src, <<"/", "*">>) THEN None
    ELSE LET ends == {k \in 3..Len(src) :
                        /\ src[k] = "*"
                        /\ GetIs(src, ByteIdx(src, k) + 1, ByteIdx(src, k) + 2, <<"/">>)}
         IN  IF ends = {} THEN None
             ELSE SomeSliced(src, ByteIdx(src, MinOf(ends)) + 2, Unit)

\* str::parse::<i64>() of a run of ASCII digits.  The value is kept as its
\* decimal numeral without leading zeros (a sequence of digits 0..9), since
\* an i64 does not fit the model checker's integers; the parse is Err exactly when
\* the value exceeds i64::MAX.
I64Max == <<9, 2, 2, 3, 3, 7, 2, 0, 3, 6, 8, 5, 4, 7, 7, 5, 8, 0, 7>>

RECURSIVE StripZeros(_)
StripZeros(d) == IF Len(d) > 1 /\ d[1] = 0 THEN StripZeros(Tail(d)) ELSE d

DigitsGreater(a, b) ==
    \/ Len(a) > Len(b)
    \/ /\ Len(a) = Len(b)
       /\ \E k \in 1..Len(a) : a[k] > b[k] /\ \A j \in 1..(k - 1) : a[j] = b[j]

I64Parse(digits) ==
    LET n == StripZeros([k \in 1..Len(digits) |-> DigitValue(digits[k])])
    IN  IF DigitsGreater(n, I64Max) THEN ParseIntError ELSE ParsedInt(n)

number_base(src) ==
    LET not_digit == {k \in 1..Len(src) : ~is_ascii_digit(src[k])}
        count == IF not_digit = {} THEN Len(src) ELSE MinOf(not_digit) - 1
        end == IF count = 0 THEN 0 ELSE ByteIdx(src, count) + 1
    IN  IF end = 0 THEN None
        ELSE LET parsed == I64Parse(SliceTo(src, end))
             IN  IF parsed.ok THEN SomeSliced(src, end, parsed.value) ELSE Panic

\* Mutant: the check of the first code point is left out.
IdBaseAnyStart(src) ==
    LET stop == {k \in 1..Len(src) : ~is_alphanumeric(src[k]) /\ src[k] # "_"}
        count == IF stop = {} THEN Len(src) ELSE MinOf(stop) - 1
        end == IF count = 0 THEN 0 ELSE ByteIdx(src, count) + len_utf8(src[count])
    IN  IF end = 0 THEN None
        ELSE Some(SliceFrom(src, end), SliceTo(src, end))

id_base(src) ==
    IF src = <<>> THEN None
    ELSE IF ~is_alphabetic(src[1]) /\ src[1] # "_" THEN None
    ELSE LET stop == {k \in 1..Len(src) : ~is_alphanumeric(src[k]) /\ src[k] # "_"}
             count == IF stop = {} THEN Len(src) ELSE MinOf(stop) - 1
             end == IF count = 0 THEN 0 ELSE ByteIdx(src, count) + len_utf8(src[count])
         IN  IF end = 0 THEN None
             ELSE Some(SliceFrom(src, end), SliceTo(src, end))

\* Mutant: the flag asks for a word boundary, any code point that is not
\* identifier-class, instead of whitespace.
TokenBaseParseWordBoundary(self, src) ==
    IF ~starts_with(src, self.token) THEN None
    ELSE IF ~self.whitespace_end
         THEN SomeSliced(src, ByteLen(self.token), self.token)
    ELSE LET rest == SliceFrom(src, ByteLen(self.token))
         IN  IF rest = <<>> THEN Some(<<>>, self.token)
             ELSE LET ch == rest[1]
                  IN  IF is_whitespace(ch)
                      THEN SomeSliced(src, len_utf8(ch), self.token)
                      ELSE IF ~is_alphanumeric(ch) /\ ch # "_"
                      THEN SomeSliced(src, ByteLen(self.token), self.token)
                      ELSE None

TokenBaseParse(self, src) ==
    IF ~starts_with(src, self.token) THEN None
    ELSE IF ~self.whitespace_end
         THEN SomeSliced(src, ByteLen(self.token), self.token)
    ELSE LET rest == SliceFrom(src, ByteLen(self.token))
         IN  IF rest = <<>> THEN Some(<<>>, self.token)
             ELSE LET idx == 0
                      ch == rest[1]
                  IN  IF is_whitespace(ch)
                      THEN SomeSliced(src, idx + len_utf8(ch), self.token)
                      ELSE None

----------------------------------------------------------------------------
(* The combinators.                                                        *)

\* The functions given to map: |_| ().
CallFunction(fun, val) == CASE fun = "to_unit" -> Unit

\* (self.function)(res.value): the parser a bind closure builds.
CallClosure(fun, val) ==
    CASE fun.closure = "map" -> Constant(CallFunction(fun.function, val))
      [] fun.closure = "ignored_and_constant" -> And(Fn("ignored"), Constant(val))
      [] fun.closure = "then" -> fun.p
      [] fun.closure = "arguments_rest" ->
           Bind(ZeroOrMore(And(Fn("comma_t"), Fn("expression"))), InsertFirst(val))
      [] fun.closure = "insert_first" -> Constant(<<fun.value>> \o val)

RECURSIVE Parse(_, _)

ConstantParse(self, src) == Some(src, self.value)

\* Mutant: longest match; the right side is consulted although the left matched.
ChoiceParseLongest(self, src) ==
    LET res == Parse(self.p1, src)
        other == Parse(self.p2, src)
    IN  CASE res.kind = "Some" ->
               IF other.kind = "Some" /\ Len(other.source) < Len(res.source)
               THEN other ELSE res
          [] res.kind = "None" -> other
          [] OTHER -> res

ChoiceParse(self, src) ==
    LET res == Parse(self.p1, src)
    IN  CASE res.kind = "Some" -> res
          [] res.kind = "None" -> Parse(self.p2, src)
          [] OTHER -> res

\* The while-let loop.  The parsers are pure, so an iteration that succeeds
\* and leaves `remaining` as it was is repeated forever.
RECURSIVE ZeroOrMoreLoop(_, _, _)
ZeroOrMoreLoop(self, remaining, acc) ==
    LET res == Parse(self.p, remaining)
    IN  CASE res.kind = "Some" ->
               IF res.source = remaining THEN Loop
               ELSE ZeroOrMoreLoop(self, res.source, Append(acc, res.value))
          [] res.kind = "None" -> Some(remaining, acc)
          [] OTHER -> res

ZeroOrMoreParse(self, src) == ZeroOrMoreLoop(self, src, <<>>)

BindParse(self, src) ==
    LET res == Parse(self.parser, src)
    IN  IF res.kind # "Some" THEN res
        ELSE Parse(CallClosure(self.function, res.value), res.source)

AndParse(self, src) ==
    LET res == Parse(self.p1, src)
    IN  IF res.kind # "Some" THEN res ELSE Parse(self.p2, res.source)

MaybeParse(self, src) ==
    LET res == Parse(self.p, src)
    IN  CASE res.kind = "Some" -> Some(res.source, Present(res.value))
          [] res.kind = "None" -> Some(src, Absent)
          [] OTHER -> res

comments(src) ==
    Parse(Choice(Fn("single_line_comment"), Fn("multi_line_comment")), src)

ignored(src) ==
    Parse(Map(ZeroOrMore(Choice(Fn("whitespace"), Fn("comments"))), "to_unit"), src)

token(tok, whitespace_end) == Bind(TokenBase(tok, whitespace_end), IgnoredAndConstant)

number(src) == Parse(Bind(Fn("number_base"), IgnoredAndConstant), src)

id(src) == Parse(Bind(Fn("id_base"), IgnoredAndConstant), src)

\* todo!(): the expression rule is not written; a call panics.
expression(src) == Panic

arguments(src) ==
    Parse(Choice(Bind(Fn("expression"), ArgumentsRest), Constant(<<>>)), src)

\* function_t .. assign_t: the program's token functions, name |-> token(...).
TokenFns ==
    [function_t    |-> token(<<"f", "u", "n", "c", "t", "i", "o", "n">>, TRUE),
     if_t          |-> token(<<"i", "f">>, TRUE),
     else_t        |-> token(<<"e", "l", "s", "e">>, TRUE),
     return_t      |-> token(<<"r", "e", "t", "u", "r", "n">>, TRUE),
     var_t         |-> token(<<"v", "a", "r">>, TRUE),
     while_t       |-> token(<<"w", "h", "i", "l", "e">>, TRUE),
     comma_t       |-> token(<<",">>, FALSE),
     semicolon_t   |-> token(<<";">>, FALSE),
     left_paren_t  |-> token(<<"(">>, FALSE),
     right_paren_t |-> token(<<")">>, FALSE),
     left_brace_t  |-> token(<<"{">>, FALSE),
     right_brace_t |-> token(<<"}">>, FALSE),
     not_t         |-> token(<<"!">>, FALSE),
     equal_t       |-> token(<<"=", "=">>, FALSE),
     not_equal_t   |-> token(<<"!", "=">>, FALSE),
     plus_t        |-> token(<<"+">>, FALSE),
     minus_t       |-> token(<<"-">>, FALSE),
     star_t        |-> token(<<"*">>, FALSE),
     slash_t       |-> token(<<"/">>, FALSE),
     assign_t      |-> token(<<"=">>, FALSE)]

\* impl Parser for F where F: Fn(&str) -> Option<Result<T>>: self(source).
FnParse(self, src) ==
    CASE self.name = "whitespace" -> whitespace(src)
      [] self.name = "single_line_comment" -> single_line_comment(src)
      [] self.name = "multi_line_comment" -> multi_line_comment(src)
      [] self.name = "comments" -> comments(src)
      [] self.name = "ignored" -> ignored(src)
      [] self.name = "number_base" -> number_base(src)
      [] self.name = "number" -> number(src)
      [] self.name = "id_base" -> id_base(src)
      [] self.name = "id" -> id(src)
      [] self.name = "expression" -> expression(src)
      [] self.name = "arguments" -> arguments(src)
      [] self.name \in DOMAIN TokenFns -> Parse(TokenFns[self.name], src)

Parse(p, src) ==
    CASE p.op = "fn" -> FnParse(p, src)
      [] p.op = "Constant" -> ConstantParse(p, src)
      [] p.op = "Choice" -> ChoiceParse(p, src)
      [] p.op = "ZeroOrMore" -> ZeroOrMoreParse(p, src)
      [] p.op = "Bind" -> BindParse(p, src)
      [] p.op = "And" -> AndParse(p, src)
      [] p.op = "Maybe" -> MaybeParse(p, src)
      [] p.op = "TokenBase" -> TokenBaseParse(p, src)

parse_to_completion(self, src) ==
    LET res == Parse(self, src)
    IN  CASE res.kind = "None" -> Err
          [] res.kind = "Some" /\ res.source = <<>> -> Err
          [] res.kind = "Some" -> Ok(res.value)
          [] OTHER -> res

----------------------------------------------------------------------------
(* The inputs: every string of at most MaxLen code points over Alphabet,   *)
(* and the strings of the program's tests and of its specification.        *)

MaxLen == 4

Alphabet == {"\n", "/", "*", "1", "i", "f"}

Strings(n) == UNION {[1..k -> Alphabet] : k \in 0..n}

\* " \t\n// c\n/* c2 */rest"
ExIgnoredFolding ==
    <<" ", "\t", "\n", "/", "/", " ", "c", "\n", "/", "*", " ", "c", "2",
      " ", "*", "/", "r", "e", "s", "t">>

\* "if ("
ExIfParen == <<"i", "f", " ", "(">>

\* "ifx"
ExIfx == <<"i", "f", "x">>

\* "if(x)"
ExIfCall == <<"i", "f", "(", "x", ")">>

\* ","
ExComma == <<",">>

\* ",foo"
ExCommaFoo == <<",", "f", "o", "o">>

\* ", \n /* comment */ foo"
ExCommaComment ==
    <<",", " ", "\n", " ", "/", "*", " ", "c", "o", "m", "m", "e", "n", "t",
      " ", "*", "/", " ", "f", "o", "o">>

\* "foo,"
ExFooComma == <<"f", "o", "o", ",">>

\* "123abc"
ExNumberAbc == <<"1", "2", "3", "a", "b", "c">>

\* "123   "
ExNumberSpaces == <<"1", "2", "3", " ", " ", " ">>

\* "1foo"
ExOneFoo == <<"1", "f", "o", "o">>

\* "_foo1 bar"
ExIdBar == <<"_", "f", "o", "o", "1", " ", "b", "a", "r">>

\* "_foo_123 \n test"
ExIdTest ==
    <<"_", "f", "o", "o", "_", "1", "2", "3", " ", "\n", " ", "t", "e", "s",
      "t">>

\* "foo,bar"
ExFooBar == <<"f", "o", "o", ",", "b", "a", "r">>

\* "x; garbage$$"
ExGarbage == <<"x", ";", " ", "g", "a", "r", "b", "a", "g", "e", "$", "$">>

\* "x;"
ExStatement == <<"x", ";">>

\* "/* multi line comment"
ExOpenComment ==
    <<"/", "*", " ", "m", "u", "l", "t", "i", " ", "l", "i", "n", "e", " ",
      "c", "o", "m", "m", "e", "n", "t">>

\* "x /* c"
ExIdOpenComment == <<"x", " ", "/", "*", " ", "c">>

\* "1/*"
ExNumberOpenComment == <<"1", "/", "*">>

\* "ifU+2003("
ExIfEmSpace == <<"i", "f", "emsp", "(">>

\* ",U+00A0x"
ExCommaNbsp == <<",", "nbsp", "x">>

\* "varU+00A0x"
ExVarNbsp == <<"v", "a", "r", "nbsp", "x">>

\* "function f"
ExFunction == <<"f", "u", "n", "c", "t", "i", "o", "n", " ", "f">>

\* "9223372036854775807"
ExI64Max ==
    <<"9", "2", "2", "3", "3", "7", "2", "0", "3", "6", "8", "5", "4", "7",
      "7", "5", "8", "0", "7">>

\* "9223372036854775808"
ExI64Overflow ==
    <<"9", "2", "2", "3", "3", "7", "2", "0", "3", "6", "8", "5", "4", "7",
      "7", "5", "8", "0", "8">>

\* "0009223372036854775807 "
ExI64Zeros ==
    <<"0", "0", "0", "9", "2", "2", "3", "3", "7", "2", "0", "3", "6", "8",
      "5", "4", "7", "7", "5", "8", "0", "7", " ">>

\* "10000000000000000000x"
ExTwentyDigits ==
    <<"1", "0", "0", "0", "0", "0", "0", "0", "0", "0", "0", "0", "0", "0",
      "0", "0", "0", "0", "0", "0", "x">>

\* "U+00E9tU+00E9U+00B2 x"
ExAccent == <<"e_acute", "t", "e_acute", "sup2", " ", "x">>

\* "U+00B2x"
ExSup2 == <<"sup2", "x">>

\* "_"
ExUnderscore == <<"_">>

\* "1_"
ExOneUnderscore == <<"1", "_">>

\* "i_1/"
ExIdSlash == <<"i", "_", "1", "/">>

Examples ==
    {ExIgnoredFolding, ExIfParen, ExIfx, ExIfCall,
     ExComma, ExCommaFoo, ExCommaComment, ExFooComma,
     ExNumberAbc, ExNumberSpaces, ExOneFoo, ExIdBar,
     ExIdTest, ExFooBar, ExGarbage, ExStatement,
     ExOpenComment, ExIdOpenComment, ExNumberOpenComment, ExIfEmSpace,
     ExCommaNbsp, ExVarNbsp, ExFunction, ExI64Max,
     ExI64Overflow, ExI64Zeros, ExTwentyDigits, ExAccent,
     ExSup2}

Inputs == Strings(MaxLen) \cup Examples

\* The literals given to TokenBase::new and token.
Literals == {<<"/">>, <<"*">>, <<",">>, <<"i", "f">>}

\* The parsers the combinators are applied to.
Operands ==
    {Fn("whitespace"), Fn("number"), Fn("id"), Fn("if_t"), Constant(Unit)}

\* The parsers sequenced under an alternation.
Parts == {Fn("slash_t"), Fn("id")}

\* The parsers run to completion.
Roots ==
    {Fn("ignored"), Fn("number"), Fn("id"), Fn("if_t"), Fn("slash_t"),
     And(Fn("ignored"), Fn("id"))}

----------------------------------------------------------------------------
(* The state machine: an input is chosen, then one applied is run on it.    *)

Init ==
    /\ input \in Inputs
    /\ applied = NoParser
    /\ result = Pending
    /\ pc = "ready"

\* p.parse(input)
Run(p) ==
    /\ pc = "ready"
    /\ pc' = "parsed"
    /\ applied' = p
    /\ result' = Parse(p, input)
    /\ UNCHANGED input

Whitespace == Run(Fn("whitespace"))

SingleLineComment == Run(Fn("single_line_comment"))

MultiLineComment == Run(Fn("multi_line_comment"))

Comments == Run(Fn("comments"))

Ignored == Run(Fn("ignored"))

\* whitespace.or(comments), the parser ignored repeats.
WhitespaceOrComments == Run(Choice(Fn("whitespace"), Fn("comments")))

TokenBaseStep == \E tok \in Literals, flag \in BOOLEAN : Run(TokenBase(tok, flag))

\* TokenBase::new over the literals of the program's token functions.
TokenBaseOfProgram ==
    \E name \in DOMAIN TokenFns, flag \in BOOLEAN :
        Run(TokenBase(TokenFns[name].parser.token, flag))

Token == \E tok \in Literals, flag \in BOOLEAN : Run(token(tok, flag))

TokenFn == \E name \in DOMAIN TokenFns : Run(Fn(name))

NumberBase == Run(Fn("number_base"))

Number == Run(Fn("number"))

IdBase == Run(Fn("id_base"))

Id == Run(Fn("id"))

Arguments == Run(Fn("arguments"))

ConstantStep == Run(Constant(Unit))

ChoiceStep == \E p1 \in Operands, p2 \in Operands : Run(Choice(p1, p2))

ChoiceOfAnd == \E a \in Parts, b \in Parts, q \in Parts : Run(Choice(And(a, b), q))

ChoiceOfBind == \E a \in Parts, b \in Parts, q \in Parts : Run(Choice(Bind(a, Then(b)), q))

ZeroOrMoreStep == \E p \in Operands : Run(ZeroOrMore(p))

BindStep == \E p \in Operands : Run(Bind(p, IgnoredAndConstant))

MapStep == \E p \in Operands : Run(Map(p, "to_unit"))

AndStep == \E p1 \in Operands, p2 \in Operands : Run(And(p1, p2))

MaybeStep == \E p \in Operands : Run(Maybe(p))

\* p.parse_to_completion(input)
ParseToCompletion ==
    \E p \in Roots :
        /\ pc = "ready"
        /\ pc' = "completed"
        /\ applied' = p
        /\ result' = parse_to_completion(p, input)
        /\ UNCHANGED input

Next ==
    \/ Whitespace
    \/ SingleLineComment
    \/ MultiLineComment
    \/ Comments
    \/ Ignored
    \/ WhitespaceOrComments
    \/ TokenBaseStep
    \/ TokenBaseOfProgram
    \/ Token
    \/ TokenFn
    \/ NumberBase
    \/ Number
    \/ IdBase
    \/ Id
    \/ Arguments
    \/ ConstantStep
    \/ ChoiceStep
    \/ ChoiceOfAnd
    \/ ChoiceOfBind
    \/ ZeroOrMoreStep
    \/ BindStep
    \/ MapStep
    \/ AndStep
    \/ MaybeStep
    \/ ParseToCompletion

Spec == Init /\ [][Next]_vars

----------------------------------------------------------------------------
(* What the claims are stated with: suffixes, and ignorable content read   *)
(* off the code points (not the bytes) of a string.                        *)

Drop(s, n) == SubSeq(s, n + 1, Len(s))

IsSuffix(t, s) == Len(t) <= Len(s) /\ Drop(s, Len(s) - Len(t)) = t

\* Where a block comment opened at the start of s closes: the positions k of
\* a "*" followed by "/", after the opening "/*".
Closers(s) == {k \in 3..(Len(s) - 1) : s[k] = "*" /\ s[k + 1] = "/"}

TerminatedComment(s) == starts_with(s, <<"/", "*">>) /\ Closers(s) # {}

OpenComment(s) == starts_with(s, <<"/", "*">>) /\ Closers(s) = {}

LineComment(s) == starts_with(s, <<"/", "/">>)

StartsIgnorable(s) ==
    \/ s # <<>> /\ s[1] \in WhitespaceChars
    \/ LineComment(s)
    \/ TerminatedComment(s)

\* s without its leading whitespace, line comments and terminated block comments.
RECURSIVE SkipIgnorable(_)
SkipIgnorable(s) ==
    CASE s # <<>> /\ s[1] \in WhitespaceChars -> SkipIgnorable(Tail(s))
      [] LineComment(s) ->
           LET ends == {k \in 3..Len(s) : s[k] = "\n"}
           IN  IF ends = {} THEN <<>> ELSE SkipIgnorable(Drop(s, MinOf(ends)))
      [] TerminatedComment(s) -> SkipIgnorable(Drop(s, MinOf(Closers(s)) + 1))
      [] OTHER -> s

\* The parser applied was token(tok, flag), built directly or by a token function.
IsToken(p) ==
    \/ p.op = "Bind" /\ p.parser.op = "TokenBase" /\ p.function = IgnoredAndConstant
    \/ p.op = "fn" /\ p.name \in DOMAIN TokenFns

TokenOf(p) == IF p.op = "fn" THEN TokenFns[p.name].parser ELSE p.parser

\* The code point after the literal, when there is one.
FollowedBy(s, tok, chars) == Len(s) > Len(tok) /\ s[Len(tok) + 1] \in chars

AtEnd(s, tok) == Len(s) = Len(tok)

IdentifierChars == AlphabeticChars \cup NumericChars \cup {"_"}

----------------------------------------------------------------------------
(* The claims.                                                             *)

\* C1: parse_to_completion(p, s) is Ok(v) exactly when p succeeds on s with
\* value v and nothing remaining; it is Err when p signals no match and when
\* p succeeds leaving input unconsumed.
C1_CompletionIffAllConsumed ==
    pc = "completed" =>
        LET res == Parse(applied, input)
        IN  /\ res.kind = "Some" /\ res.source = <<>> => result = Ok(res.value)
            /\ res.kind = "Some" /\ res.source # <<>> => result = Err
            /\ res.kind = "None" => result = Err

\* C2: whenever token(literal, flag) succeeds, its value is the literal and
\* its remaining input is the input without the literal and without the
\* ignorable content right after it; token("if", true) on "if (" leaves "(".
C2_TokenRemainder ==
    pc = "parsed" /\ IsToken(applied) /\ result.kind = "Some" =>
        LET tok == TokenOf(applied).token
        IN  /\ result.value = tok
            /\ result.source = SkipIgnorable(Drop(input, Len(tok)))

\* C3: token(literal, flag) succeeds iff the input starts with the literal
\* and, with the flag set, a whitespace code point or the end of the input
\* follows it; with the flag clear what follows is unconstrained.
C3_TokenSucceedsIff ==
    pc = "parsed" /\ (IsToken(applied) \/ applied.op = "TokenBase") =>
        LET base == IF applied.op = "TokenBase" THEN applied ELSE TokenOf(applied)
            tok == base.token
        IN  result.kind = "Some" <=>
                /\ starts_with(input, tok)
                /\ base.whitespace_end =>
                       AtEnd(input, tok) \/ FollowedBy(input, tok, WhitespaceChars)

\* C4 (as claimed): token(literal, true) accepts a word boundary: on an input
\* that starts with the literal it signals no match only when an
\* identifier-class code point (alphanumeric or underscore) follows, so it
\* does not fail on "if(x)".
C4_WordBoundaryAccepted ==
    pc = "parsed" /\ IsToken(applied) /\ TokenOf(applied).whitespace_end =>
        LET tok == TokenOf(applied).token
        IN  starts_with(input, tok) /\ result = None
            => FollowedBy(input, tok, IdentifierChars)

\* C4 (amended): token(literal, true) signals no match whenever the input
\* starts with the literal and the next code point is not whitespace, also
\* when that code point is not identifier-class: if_t fails on "if(x)".
C4_WhitespaceBoundaryRequired ==
    pc = "parsed" /\ IsToken(applied) /\ TokenOf(applied).whitespace_end =>
        LET tok == TokenOf(applied).token
        IN  /\ starts_with(input, tok)
            /\ Len(input) > Len(tok)
            /\ ~is_whitespace(input[Len(tok) + 1])
            => result = None

\* C4 witness: if_t was run on "if(x)" and signalled no match.
C4_Witness ==
    /\ pc = "parsed"
    /\ applied = Fn("if_t")
    /\ input = ExIfCall
    /\ result = None

\* The input the applied parser skips ignorable content on: the whole input for
\* ignored, what follows the leading digits for number, what follows the
\* leading identifier code points for id.
LeadingRun(s, chars) ==
    LET stop == {k \in 1..Len(s) : s[k] \notin chars}
    IN  IF stop = {} THEN Len(s) ELSE MinOf(stop) - 1

SkippedFrom(p, s) ==
    CASE p = Fn("ignored") -> s
      [] p = Fn("number") -> Drop(s, LeadingRun(s, AsciiDigitChars))
      [] p = Fn("id") -> Drop(s, LeadingRun(s, IdentifierChars))

\* C5: multi_line_comment signals no match on a "/*" that is never closed,
\* and a parse to completion of an input with such a "/*" where ignorable
\* content is skipped (at the start of ignored, right after a number or an
\* identifier) returns failure.
C5_OpenCommentFailsParse ==
    /\ pc = "parsed" /\ applied = Fn("multi_line_comment") /\ OpenComment(input)
       => result = None
    /\ pc = "completed" /\ applied \in {Fn("ignored"), Fn("number"), Fn("id")}
          /\ OpenComment(SkipIgnorable(SkippedFrom(applied, input)))
       => result = Err

\* The consumed text is ignorable content and nothing else: it is made of
\* whitespace, line comments with their newline, and closed block comments.
RECURSIVE IsIgnorable(_)
IsIgnorable(s) ==
    CASE s = <<>> -> TRUE
      [] s[1] \in WhitespaceChars -> IsIgnorable(Tail(s))
      [] LineComment(s) ->
           LET ends == {k \in 3..Len(s) : s[k] = "\n"}
           IN  IF ends = {} THEN TRUE ELSE IsIgnorable(Drop(s, MinOf(ends)))
      [] TerminatedComment(s) -> IsIgnorable(Drop(s, MinOf(Closers(s)) + 1))
      [] OTHER -> FALSE

\* C6: ignored succeeds on every input; what it leaves is a suffix of the
\* input that starts with no whitespace, no "//" and no closed block comment,
\* and what it consumed is ignorable content only.
C6_IgnoredIsMaximal ==
    pc = "parsed" /\ applied = Fn("ignored") =>
        /\ result.kind = "Some"
        /\ result.value = Unit
        /\ IsSuffix(result.source, input)
        /\ ~StartsIgnorable(result.source)
        /\ IsIgnorable(SubSeq(input, 1, Len(input) - Len(result.source)))

\* C6 witness: ignored on " \t\n// c\n/* c2 */rest" left exactly "rest".
C6_Witness ==
    /\ pc = "parsed"
    /\ applied = Fn("ignored")
    /\ input = ExIgnoredFolding
    /\ result = Some(<<"r", "e", "s", "t">>, Unit)

\* The decimal numeral of a run of ASCII digits, without its leading zeros,
\* and the number a short numeral denotes.
Numeral(run) == StripZeros([k \in 1..Len(run) |-> DigitValue(run[k])])

RECURSIVE NatOf(_)
NatOf(d) == IF d = <<>> THEN 0 ELSE 10 * NatOf(SubSeq(d, 1, Len(d) - 1)) + d[Len(d)]

RECURSIVE Pow10(_)
Pow10(n) == IF n = 0 THEN 1 ELSE 10 * Pow10(n - 1)

DecimalValue(run) ==
    LET n == Len(run)
        term[k \in 0..n] ==
            IF k = 0 THEN 0 ELSE term[k - 1] + DigitValue(run[k]) * Pow10(n - k)
    IN  term[n]

\* The longest run whose value the model checker's integers hold.
MaxIntDigits == 9

\* C7: number succeeds iff the input starts with an ASCII digit; its value is
\* the decimal value of the maximal leading run of ASCII digits and it leaves
\* what follows the run without the leading ignorable content; no word
\* boundary is needed after the digits.
C7_NumberIff ==
    pc = "parsed" /\ applied = Fn("number") =>
        LET n == LeadingRun(input, AsciiDigitChars)
            run == SubSeq(input, 1, n)
        IN  /\ result.kind = "Some" <=> n >= 1
            /\ result.kind = "Some" =>
                 /\ result.value = Numeral(run)
                 /\ n <= MaxIntDigits => NatOf(result.value) = DecimalValue(run)
                 /\ result.source = SkipIgnorable(Drop(input, n))

\* C8: id succeeds iff the first code point is alphabetic or an underscore;
\* its value is the maximal leading run of alphanumeric-or-underscore code
\* points and it leaves what follows the run without the leading ignorable
\* content; it fails on "" and on an input starting with a digit.
C8_IdIff ==
    pc = "parsed" /\ applied = Fn("id") =>
        LET n == LeadingRun(input, IdentifierChars)
        IN  /\ result.kind = "Some" <=>
                input # <<>> /\ input[1] \in AlphabeticChars \cup {"_"}
            /\ result.kind = "Some" =>
                 /\ result.value = SubSeq(input, 1, n)
                 /\ result.source = SkipIgnorable(Drop(input, n))
            /\ input = <<>> \/ input[1] \in AsciiDigitChars => result = None

\* C8 witness: id on "_foo1 bar" yielded "_foo1" and left "bar".
C8_Witness ==
    /\ pc = "parsed"
    /\ applied = Fn("id")
    /\ input = ExIdBar
    /\ result = Some(<<"b", "a", "r">>, <<"_", "f", "o", "o", "1">>)

\* C9: whenever a applied succeeds, its remaining input is a suffix of the
\* input it was given, so never longer than it.
C9_SuffixInvariant ==
    pc = "parsed" /\ result.kind = "Some" =>
        /\ IsSuffix(result.source, input)
        /\ Len(result.source) <= Len(input)

\* C9 witness: a combinator succeeded having consumed a part of its input.
C9_Witness ==
    /\ pc = "parsed"
    /\ applied.op \in {"Choice", "And", "Bind", "ZeroOrMore", "Maybe"}
    /\ result.kind = "Some"
    /\ result.source # <<>>
    /\ Len(result.source) < Len(input)

\* The input left after n successes of p in a row, starting from s.
RECURSIVE AfterSuccesses(_, _, _)
AfterSuccesses(p, s, n) ==
    IF n = 0 THEN s ELSE AfterSuccesses(p, Parse(p, s).source, n - 1)

\* C10: p.or(q) returns p's result when p succeeds, whatever q would do, and
\* otherwise q's result on the original input, also when p is a sequence
\* whose first part consumed input before a later part failed; maybe and the
\* failing last iteration of zero-or-more leave the input where it was.
C10_FirstMatchWithRestart ==
    pc = "parsed" =>
        /\ applied.op = "Choice" =>
             LET left == Parse(applied.p1, input)
             IN  /\ left.kind = "Some" => result = left
                 /\ left.kind = "None" => result = Parse(applied.p2, input)
        /\ applied.op = "Maybe" /\ Parse(applied.p, input) = None =>
             result = Some(input, Absent)
        /\ applied.op = "ZeroOrMore" /\ result.kind = "Some" =>
             /\ result.source = AfterSuccesses(applied.p, input, Len(result.value))
             /\ Parse(applied.p, result.source) = None

\* C10 witness: the left side was a sequence whose first part consumed input
\* and whose second part failed, and the right side then matched the input
\* from its start.
C10_Witness ==
    /\ pc = "parsed"
    /\ applied.op = "Choice"
    /\ applied.p1.op \in {"And", "Bind"}
    /\ LET first == Parse(IF applied.p1.op = "And" THEN applied.p1.p1
                          ELSE applied.p1.parser, input)
       IN  first.kind = "Some" /\ Len(first.source) < Len(input)
    /\ Parse(applied.p1, input) = None
    /\ result.kind = "Some"
    /\ result = Parse(applied.p2, input)

\* p never succeeds without consuming: on every suffix of s a success of p
\* leaves less than it was given.
ConsumesOnSuccess(p, s) ==
    \A k \in 0..Len(s) :
        LET res == Parse(p, Drop(s, k))
        IN  res.kind = "Some" => Len(res.source) < Len(Drop(s, k))

\* The recognizers that call ignored.
CallsIgnored(p) ==
    \/ p \in {Fn("ignored"), Fn("number"), Fn("id")}
    \/ IsToken(p)

\* C11: zero-or-more applied to an inner parser that consumes on each success
\* finishes after at most length-of-input iterations and returns success;
\* ignored, and every token, number and id recognizer, terminates on every
\* input, an unterminated block comment included.
C11_RepetitionTerminates ==
    pc = "parsed" =>
        /\ applied.op = "ZeroOrMore" /\ ConsumesOnSuccess(applied.p, input) =>
             /\ result.kind = "Some"
             /\ Len(result.value) <= Len(input)
        /\ CallsIgnored(applied) => result # Loop

\* The primitives of the lexical layer.
LexicalPrimitive(p) ==
    \/ p \in {Fn("whitespace"), Fn("single_line_comment"),
              Fn("multi_line_comment"), Fn("comments"),
              Choice(Fn("whitespace"), Fn("comments")),
              Fn("number_base"), Fn("id_base")}
    \/ p.op = "TokenBase"

\* C12: whenever a lexical primitive succeeds, its remaining input is a proper
\* suffix of the input, shorter in code points and in bytes; none succeeds
\* having consumed nothing, and whitespace signals no match when the input
\* does not start with whitespace.
C12_ProgressOnSuccess ==
    pc = "parsed" /\ LexicalPrimitive(applied) =>
        /\ result.kind = "Some" =>
             /\ IsSuffix(result.source, input)
             /\ Len(result.source) < Len(input)
             /\ ByteLen(result.source) < ByteLen(input)
        /\ applied = Fn("whitespace")
             /\ (input = <<>> \/ input[1] \notin WhitespaceChars) =>
             result = None

\* C12 witness: the alternation inside ignored matched a comment and left a
\* part of the input.
C12_Witness ==
    /\ pc = "parsed"
    /\ applied = Choice(Fn("whitespace"), Fn("comments"))
    /\ starts_with(input, <<"/", "/">>)
    /\ result.kind = "Some"
    /\ result.source # <<>>
    /\ Len(result.source) < Len(input)

\* C13: when the leading run of ASCII digits denotes more than 2^63 - 1 the
\* number recognizer signals no match; it never aborts, and every value it
\* yields is at most 2^63 - 1 and is the decimal value of the run.
C13_OverflowFailsExplicitly ==
    pc = "parsed" /\ applied \in {Fn("number"), Fn("number_base")} =>
        LET n == LeadingRun(input, AsciiDigitChars)
            run == SubSeq(input, 1, n)
        IN  /\ n >= 1 /\ DigitsGreater(Numeral(run), I64Max) => result = None
            /\ result # Panic
            /\ result.kind = "Some" =>
                 /\ ~DigitsGreater(result.value, I64Max)
                 /\ result.value = Numeral(run)
                 /\ n <= MaxIntDigits => NatOf(result.value) = DecimalValue(run)

\* What the argument-list rule is to return after the expressions in acc,
\* with s left: while a comma and an expression follow, the expression is
\* added; otherwise s is left as it is, a trailing comma included.
RECURSIVE MoreArguments(_, _)
MoreArguments(s, acc) ==
    LET comma == Parse(Fn("comma_t"), s)
        next == IF comma.kind = "Some" THEN Parse(Fn("expression"), comma.source)
                ELSE None
    IN  IF next.kind = "Some"
        THEN MoreArguments(next.source, Append(acc, next.value))
        ELSE Some(s, acc)

\* C14: the argument-list rule always returns a success: the expressions
\* e1, ..., en separated by commas at the start of the input, in source order,
\* leaving what follows en; the empty list and the whole input when no
\* expression starts the input; a comma no expression follows is not consumed.
C14_ArgumentsAlwaysSucceed ==
    pc = "parsed" /\ applied = Fn("arguments") =>
        LET first == Parse(Fn("expression"), input)
        IN  /\ result.kind = "Some"
            /\ first.kind = "Some" =>
                 result = MoreArguments(first.source, <<first.value>>)
            /\ first.kind # "Some" => result = Some(input, <<>>)

====
